---- MODULE Spec2Model ----
(***************************************************************************)
(* PropData Estimator (src/app.py): the valuation engine, the forecast     *)
(* generator with its st.cache_data memo, and the PDF report formatter.    *)
(*                                                                         *)
(* Number representation.  Money is an integer number of PKR.  Every       *)
(* multiplier of the program has two decimals and is held in hundredths    *)
(* (1.15 is 115); Times(x, pct) is the exact product x * pct / 100.  With  *)
(* base rates that are multiples of 5000 and areas that are multiples of   *)
(* 10 (the slider's step) every amount of the breakdown is a whole number  *)
(* of PKR, and the breakdown holds that exact value; the program's double  *)
(* differs from it by rounding error only (below 1e-6 PKR on the model's   *)
(* range).  The jittered price total * variance has two decimals and is    *)
(* held as whole PKR plus hundredths.  Where the rounding error decides    *)
(* what the program prints, which is when the exact price ends in .50,     *)
(* the price also records on which side of that tie the program's double   *)
(* lies; the double is computed operation by operation, in the order of    *)
(* the code, by the IEEE-754 arithmetic defined below.                     *)
(***************************************************************************)
EXTENDS Integers, Sequences, FiniteSets, TLC

VARIABLES today, params, outcome, log, report, dep, cache, forecast, computed

vars == <<today, params, outcome, log, report, dep, cache, forecast, computed>>

(***************************************************************************)
(* Bounds of the model                                                     *)
(***************************************************************************)
MaxLog == 1
MaxYear == 2030
MaxMonths == 3
MaxCache == 2

(***************************************************************************)
(* Rate tables and market configuration                                    *)
(***************************************************************************)
ElitePremium ==
    ("DHA Phase 8" :> 190000) @@ ("DHA Phase 6" :> 165000) @@
    ("DHA Phase 5" :> 160000) @@ ("DHA Phase 2" :> 145000) @@
    ("Clifton Block 2" :> 170000) @@ ("Clifton Block 5" :> 165000) @@
    ("KDA Scheme 1" :> 150000) @@ ("Navy Housing (Karsaz)" :> 155000) @@
    ("Askari 4" :> 125000) @@ ("Askari 5" :> 120000) @@
    ("PECHS Block 2" :> 130000) @@ ("PECHS Block 6" :> 140000)

UpperMidRange ==
    ("Bahadurabad" :> 110000) @@ ("Mohammad Ali Society" :> 115000) @@
    ("Al-Hilal Society" :> 105000) @@ ("Gulshan Block 13D" :> 95000) @@
    ("Gulshan Block 10" :> 90000) @@ ("North Nazimabad (Hyderi)" :> 100000) @@
    ("North Nazimabad Block H" :> 95000) @@ ("Garden West" :> 95000) @@
    ("Federal B Area" :> 90000)

MidRange ==
    ("Gulistan-e-Jauhar Blk 1" :> 80000) @@ ("Gulistan-e-Jauhar Blk 15" :> 75000) @@
    ("Scheme 33 (Saadi Town)" :> 65000) @@ ("Scheme 33 (Metrovil)" :> 60000) @@
    ("Bahria Town (Precinct 1)" :> 110000) @@ ("Bahria Town (Precinct 10)" :> 85000) @@
    ("Malir Cantt" :> 95000) @@ ("Bufferzone" :> 70000) @@
    ("North Karachi" :> 60000)

Affordable ==
    ("New Karachi" :> 45000) @@ ("Surjani Town" :> 35000) @@
    ("Korangi Crossing" :> 55000) @@ ("Korangi Industrial" :> 60000) @@
    ("Orangi Town" :> 30000) @@ ("Lyari" :> 35000) @@
    ("Taiser Town" :> 25000) @@ ("Baldia Town" :> 30000)

MARKET_CLUSTERS ==
    [c \in {"Elite / Premium", "Upper Mid-Range", "Mid-Range", "Affordable"} |->
        CASE c = "Elite / Premium" -> ElitePremium
          [] c = "Upper Mid-Range" -> UpperMidRange
          [] c = "Mid-Range" -> MidRange
          [] c = "Affordable" -> Affordable]

\* The dict comprehension keeps the last value of a repeated key, so the
\* later cluster takes priority (no location is in fact repeated).
BASE_RATES ==
    MARKET_CLUSTERS["Affordable"] @@ MARKET_CLUSTERS["Mid-Range"] @@
    MARKET_CLUSTERS["Upper Mid-Range"] @@ MARKET_CLUSTERS["Elite / Premium"]

DEFAULT_BASE_RATE == 50000
NEUTRAL == 100

QUALITY_MULTIPLIERS ==
    ("A+ (Luxury)" :> 160) @@ ("A (Premium)" :> 130) @@
    ("B (Standard)" :> 100) @@ ("C (Basic)" :> 85)

ROAD_WIDTH_FACTORS ==
    ("Main Boulevard (100ft+)" :> 115) @@ ("Wide Road (60-80ft)" :> 108) @@
    ("Standard Street (30-40ft)" :> 100) @@ ("Narrow Lane (<30ft)" :> 95)

COMMERCIAL_MULTIPLIER == 160
ROOM_PREMIUM == 1200000

CORNER_PCT == 15
PARK_PCT == 10
WEST_OPEN_PCT == 5

VARIANCE_LOW == 97
VARIANCE_HIGH == 103

GROWTH_PCT == 112
NOISE_PER_MILLE == 15

(***************************************************************************)
(* Arithmetic helpers                                                      *)
(***************************************************************************)
\* x * pct / 100, split so that no intermediate product leaves 32 bits.
Times(x, pct) == (x \div 100) * pct + ((x % 100) * pct) \div 100

\* The two-decimal remainder of x * pct / 100, in hundredths (0..99).
TimesCents(x, pct) == ((x % 100) * pct) % 100

Max(a, b) == IF a >= b THEN a ELSE b

Abs(x) == IF x < 0 THEN 0 - x ELSE x

\* dict.get(key, default)
DictGet(d, key, default) == IF key \in DOMAIN d THEN d[key] ELSE default

(***************************************************************************)
(* Calendar                                                                *)
(***************************************************************************)
Year(date) == date[1]

IsLeap(y) == (y % 4 = 0 /\ y % 100 # 0) \/ y % 400 = 0

DaysInMonth(y, m) ==
    IF m = 2 THEN (IF IsLeap(y) THEN 29 ELSE 28)
    ELSE IF m \in {4, 6, 9, 11} THEN 30 ELSE 31

DateLess(a, b) ==
    \/ a[1] < b[1]
    \/ a[1] = b[1] /\ a[2] < b[2]
    \/ a[1] = b[1] /\ a[2] = b[2] /\ a[3] < b[3]

(***************************************************************************)
(* IEEE-754 doubles                                                        *)
(*                                                                         *)
(* The program's amounts are doubles.  A natural number of any size is a   *)
(* sequence of 15-bit limbs, least significant first, with no leading zero *)
(* limb (zero is <<>>).  A double is [sign, m, e] with value               *)
(* sign * m * 2^e, where m has exactly 53 bits, or m = <<>> for zero.      *)
(* Every operation rounds to nearest, ties to even, as the hardware does.  *)
(***************************************************************************)
Limb == 2^15

\* The element of a one-element set.  Only({F(a) : a \in {v}}) is F(v) with
\* v evaluated once, however often F uses it.
Only(S) == CHOOSE r \in S : TRUE

\* The index of the highest nonzero limb among the limbs 1..i of a, or 0.
RECURSIVE TopLimb(_, _)
TopLimb(a, i) == IF i = 0 \/ a[i] # 0 THEN i ELSE TopLimb(a, i - 1)

\* x without its leading zero limbs
BNorm(x) == Only({SubSeq(a, 1, TopLimb(a, Len(a))) : a \in {x}})

RECURSIVE BFromNat(_)
BFromNat(n) == IF n = 0 THEN <<>> ELSE <<n % Limb>> \o BFromNat(n \div Limb)

\* Limb i of a, 0 beyond its length.
LimbAt(a, i) == IF i <= Len(a) THEN a[i] ELSE 0

\* The limbs from i on of a + b + c, c the carry into limb i.
RECURSIVE BAddC(_, _, _, _)
BAddC(a, b, i, c) ==
    IF i > Len(a) /\ i > Len(b) THEN (IF c = 0 THEN <<>> ELSE <<c>>)
    ELSE Only({<<s % Limb>> \o BAddC(a, b, i + 1, s \div Limb) :
                    s \in {LimbAt(a, i) + LimbAt(b, i) + c}})

BAdd(x, y) == Only({BAddC(a, b, 1, 0) : a \in {x}, b \in {y}})

\* The limbs from i on of a - b - c, c the borrow from limb i.
RECURSIVE BSubC(_, _, _, _)
BSubC(a, b, i, c) ==
    IF i > Len(a) THEN <<>>
    ELSE Only({<<d % Limb>> \o BSubC(a, b, i + 1, IF d < 0 THEN 1 ELSE 0) :
                    d \in {a[i] - LimbAt(b, i) - c}})

\* x - y for x >= y
BSub(x, y) == Only({BNorm(BSubC(a, b, 1, 0)) : a \in {x}, b \in {y}})

RECURSIVE BCmpAt(_, _, _)
BCmpAt(a, b, i) ==
    IF i = 0 THEN 0
    ELSE IF a[i] > b[i] THEN 1
    ELSE IF a[i] < b[i] THEN -1
    ELSE BCmpAt(a, b, i - 1)

BCmpValues(a, b) ==
    IF Len(a) > Len(b) THEN 1
    ELSE IF Len(a) < Len(b) THEN -1
    ELSE BCmpAt(a, b, Len(a))

\* -1, 0 or 1 as x < y, x = y or x > y
BCmp(x, y) == Only({BCmpValues(a, b) : a \in {x}, b \in {y}})

\* The limbs from i on of a * k + c, c the carry into limb i.
RECURSIVE BMulSmallC(_, _, _, _)
BMulSmallC(a, k, i, c) ==
    IF i > Len(a) THEN (IF c = 0 THEN <<>> ELSE <<c>>)
    ELSE Only({<<s % Limb>> \o BMulSmallC(a, k, i + 1, s \div Limb) :
                    s \in {a[i] * k + c}})

\* x * k for 0 <= k < Limb
BMulSmall(x, k) == Only({BNorm(BMulSmallC(a, k, 1, 0)) : a \in {x}})

\* a * (the limbs from j on of b)
RECURSIVE BMulFrom(_, _, _)
BMulFrom(a, b, j) ==
    IF j > Len(b) THEN <<>>
    ELSE Only({BAdd(BMulSmall(a, b[j]), IF rest = <<>> THEN <<>> ELSE <<0>> \o rest) :
                    rest \in {BMulFrom(a, b, j + 1)}})

BMul(x, y) ==
    Only({IF a = <<>> \/ b = <<>> THEN <<>> ELSE BMulFrom(a, b, 1) : a \in {x}, b \in {y}})

\* Quotient and remainder by d of r * Limb^i + (the limbs 1..i of a).
RECURSIVE BDivSmallR(_, _, _, _)
BDivSmallR(a, d, i, r) ==
    IF i = 0 THEN [q |-> <<>>, r |-> r]
    ELSE Only({[q |-> rest.q \o <<(r * Limb + a[i]) \div d>>, r |-> rest.r] :
                    rest \in {BDivSmallR(a, d, i - 1, (r * Limb + a[i]) % d)}})

\* quotient and remainder of x by d, 0 < d < Limb
BDivSmall(x, d) ==
    Only({[q |-> BNorm(qr.q), r |-> qr.r] :
            qr \in {Only({BDivSmallR(a, d, Len(a), 0) : a \in {x}})}})

BShiftLeftValue(a, k) ==
    IF a = <<>> THEN <<>>
    ELSE [i \in 1..(k \div 15) |-> 0] \o BMulSmall(a, 2^(k % 15))

\* x * 2^k
BShiftLeft(x, k) == Only({BShiftLeftValue(a, k) : a \in {x}})

BShiftRightValue(a, k) ==
    IF k \div 15 >= Len(a) THEN <<>>
    ELSE BDivSmall(SubSeq(a, (k \div 15) + 1, Len(a)), 2^(k % 15)).q

\* x \div 2^k
BShiftRight(x, k) == Only({BShiftRightValue(a, k) : a \in {x}})

RECURSIVE Bits(_)
Bits(n) == IF n = 0 THEN 0 ELSE 1 + Bits(n \div 2)

BitLen(a) == IF a = <<>> THEN 0 ELSE 15 * (Len(a) - 1) + Bits(a[Len(a)])

FZero == [sign |-> 1, m |-> <<>>, e |-> 0]

\* The mantissa q2 of 53 or 54 bits as a double: a carry out of 53 bits
\* leaves a power of two.
FRenorm(sign, q2, e) ==
    IF BitLen(q2) > 53
    THEN [sign |-> sign, m |-> BShiftRight(q2, 1), e |-> e + 1]
    ELSE [sign |-> sign, m |-> q2, e |-> e]

\* sign * M * 2^E for M of L > 53 bits, with q the leading 53 bits of M and
\* c comparing the bits dropped with half a unit of q.
FRoundDropped(sign, q, c, odd, E) ==
    Only({FRenorm(sign, q2, E) :
            q2 \in {IF c > 0 \/ (c = 0 /\ odd) THEN BAdd(q, <<1>>) ELSE q}})

FRoundLong(sign, m, L, E, sticky) ==
    Only({FRoundDropped(sign, q,
                        BCmp(BSub(m, BShiftLeft(q, L - 53)), BShiftLeft(<<1>>, L - 54)),
                        sticky \/ q[1] % 2 = 1, E + (L - 53)) :
            q \in {BShiftRight(m, L - 53)}})

FRoundValue(sign, m, L, E, sticky) ==
    IF m = <<>> THEN [sign |-> sign, m |-> <<>>, e |-> 0]
    ELSE IF L <= 53
    THEN [sign |-> sign, m |-> BShiftLeft(m, 53 - L), e |-> E - (53 - L)]
    ELSE FRoundLong(sign, m, L, E, sticky)

\* The double nearest to sign * M * 2^E (ties to even); sticky says that the
\* exact value is a little more than M * 2^E in magnitude.
FRound(sign, M, E, sticky) ==
    Only({FRoundValue(sign, m, BitLen(m), E, sticky) : m \in {M}})

\* float(n) for an int n
FFromInt(n) == FRound(IF n < 0 THEN -1 ELSE 1, BFromNat(IF n < 0 THEN 0 - n ELSE n), 0, FALSE)

\* The float literal with the value pct / 100.
FHundredths(pct) ==
    Only({FRound(1, qr.q, -75, qr.r # 0) :
            qr \in {BDivSmall(BShiftLeft(BFromNat(pct), 75), 100)}})

FMulValues(x, y) == FRound(x.sign * y.sign, BMul(x.m, y.m), x.e + y.e, FALSE)

\* x * y
FMul(x, y) == Only({FMulValues(a, b) : a \in {x}, b \in {y}})

\* x + y for nonzero x and y, their mantissas mx and my aligned to exponent e
FAddAligned(x, y, mx, my, e) ==
    IF x.sign = y.sign THEN FRound(x.sign, BAdd(mx, my), e, FALSE)
    ELSE Only({IF c = 0 THEN FZero
               ELSE IF c > 0 THEN FRound(x.sign, BSub(mx, my), e, FALSE)
               ELSE FRound(y.sign, BSub(my, mx), e, FALSE) : c \in {BCmp(mx, my)}})

FAddValues(x, y) ==
    IF x.m = <<>> THEN (IF y.m = <<>> /\ x.sign = 1 THEN x ELSE y)
    ELSE IF y.m = <<>> THEN x
    ELSE Only({FAddAligned(x, y, mx, my, IF x.e < y.e THEN x.e ELSE y.e) :
                mx \in {BShiftLeft(x.m, IF x.e < y.e THEN 0 ELSE x.e - y.e)},
                my \in {BShiftLeft(y.m, IF x.e < y.e THEN y.e - x.e ELSE 0)}})

\* x + y
FAdd(x, y) == Only({FAddValues(a, b) : a \in {x}, b \in {y}})

\* -1, 0 or 1 as the double x is below, at or above n + 1/2, for an int n
FCompareHalfValue(x, n) ==
    LET tsign == IF n < 0 THEN -1 ELSE 1
        \* twice the magnitude of n + 1/2
        twice == IF n < 0 THEN BSub(BMulSmall(BFromNat(0 - n), 2), <<1>>)
                 ELSE BAdd(BMulSmall(BFromNat(n), 2), <<1>>)
        xs    == IF x.m = <<>> THEN 0 ELSE x.sign
        sh    == x.e + 1
    IN  IF xs # tsign THEN (IF xs < tsign THEN -1 ELSE 1)
        ELSE IF sh >= 0 THEN tsign * BCmp(BShiftLeft(x.m, sh), twice)
        ELSE tsign * BCmp(x.m, BShiftLeft(twice, 0 - sh))

FCompareHalf(x, n) == Only({FCompareHalfValue(a, n) : a \in {x}})

(***************************************************************************)
(* ValuationEngine.calculate_depreciation_factor                           *)
(***************************************************************************)
DepreciationStrictBoundaries(construction_year, current) ==
    LET age == Max(0, current - construction_year)
    IN  IF age <= 0 THEN 110
        ELSE IF age < 5 THEN 100
        ELSE IF age < 10 THEN 85
        ELSE IF age < 20 THEN 70
        ELSE 55

calculate_depreciation_factor(construction_year, current) ==
    LET age == Max(0, current - construction_year)
    IN  IF age <= 0 THEN 110
        ELSE IF age <= 5 THEN 100
        ELSE IF age <= 10 THEN 85
        ELSE IF age <= 20 THEN 70
        ELSE 55

(***************************************************************************)
(* ValuationEngine.calculate_estimate                                      *)
(*                                                                         *)
(* A request is a function from field names to values; a field the caller  *)
(* left out is absent from its domain.  The outcome of a call is either    *)
(* [kind |-> "return", value |-> ...] or [kind |-> "raise", exc |-> ...].  *)
(***************************************************************************)
NoCall == [kind |-> "none"]

SubscriptedKeysAnyType(p) ==
    <<"location", "road_width", "area", "type", "bedrooms", "quality", "year_built">>

\* The keys read with params[...] in the order the code reads them; the
\* flags are read with params.get and are never required.
SubscriptedKeys(p) ==
    <<"location", "road_width", "area", "type">> \o
    (IF "type" \in DOMAIN p /\ p["type"] = "Residential"
        THEN <<"bedrooms", "quality", "year_built">> ELSE <<>>)

MissingKeys(p) ==
    {i \in 1..Len(SubscriptedKeys(p)) : SubscriptedKeys(p)[i] \notin DOMAIN p}

\* The first subscript that raises KeyError.
FirstMissing(p) ==
    SubscriptedKeys(p)[CHOOSE i \in MissingKeys(p) : \A j \in MissingKeys(p) : i <= j]

\* params.get(flag): absent flags are None, which is falsy.
Flag(p, name) == DictGet(p, name, FALSE)

BaseRateWrongDefault(p) == DictGet(BASE_RATES, p["location"], 0)

BaseRate(p) == DictGet(BASE_RATES, p["location"], DEFAULT_BASE_RATE)

RoadFactor(p) == DictGet(ROAD_WIDTH_FACTORS, p["road_width"], NEUTRAL)

QualityMult(p) == DictGet(QUALITY_MULTIPLIERS, p["quality"], NEUTRAL)

LandValueWithoutRoad(p) == BaseRate(p) * p["area"]

LandValue(p) ==
    LET base   == BaseRate(p)
        road_f == RoadFactor(p)
    IN  Times(base, road_f) * p["area"]

StructureValue(p, current) ==
    IF p["type"] = "Residential"
    THEN LET raw_struct   == p["bedrooms"] * ROOM_PREMIUM
             quality_mult == QualityMult(p)
             depreciation == calculate_depreciation_factor(p["year_built"], current)
         IN  Times(Times(raw_struct, quality_mult), depreciation)
    ELSE 0

Depreciation(p, current) ==
    IF p["type"] = "Residential"
    THEN calculate_depreciation_factor(p["year_built"], current)
    ELSE NEUTRAL

FeaturesCompounded(p, land_value) ==
    LET f1 == IF Flag(p, "is_corner") THEN Times(land_value, CORNER_PCT) ELSE 0
        f2 == IF Flag(p, "is_park") THEN f1 + Times(land_value + f1, PARK_PCT) ELSE f1
        f3 == IF Flag(p, "is_west_open") THEN f2 + Times(land_value + f2, WEST_OPEN_PCT) ELSE f2
    IN  f3

Features(p, land_value) ==
    LET f1 == IF Flag(p, "is_corner") THEN Times(land_value, CORNER_PCT) ELSE 0
        f2 == IF Flag(p, "is_park") THEN f1 + Times(land_value, PARK_PCT) ELSE f1
        f3 == IF Flag(p, "is_west_open") THEN f2 + Times(land_value, WEST_OPEN_PCT) ELSE f2
    IN  f3

TotalUpliftLandOnly(p, land_value, structure_value, features) ==
    IF p["type"] = "Commercial"
    THEN Times(land_value, COMMERCIAL_MULTIPLIER) + structure_value + features
    ELSE land_value + structure_value + features

Total(p, land_value, structure_value, features) ==
    LET total == land_value + structure_value + features
    IN  IF p["type"] = "Commercial" THEN Times(total, COMMERCIAL_MULTIPLIER) ELSE total

\* The float expressions of the code, as trees: an int operand, a float
\* literal in hundredths, a product and a sum.  a * b * c is (a * b) * c.
FInt(n) == [op |-> "int", n |-> n]
FLit(pct) == [op |-> "lit", pct |-> pct]
FProd(x, y) == [op |-> "*", l |-> x, r |-> y]
FSum(x, y) == [op |-> "+", l |-> x, r |-> y]

\* The double an expression evaluates to: an int operand is converted to
\* the nearest double, and every product and sum is rounded.
RECURSIVE FValue(_)
FValue(t) ==
    CASE t.op = "int" -> FFromInt(t.n)
      [] t.op = "lit" -> FHundredths(t.pct)
      [] t.op = "*"   -> FMul(FValue(t.l), FValue(t.r))
      [] t.op = "+"   -> FAdd(FValue(t.l), FValue(t.r))

FloatLandValue(p) ==
    LET base   == FInt(BaseRate(p))
        road_f == FLit(RoadFactor(p))
    IN  FProd(FProd(base, road_f), FInt(p["area"]))

FloatStructureValue(p, current) ==
    IF p["type"] = "Residential"
    THEN LET raw_struct   == FInt(p["bedrooms"] * ROOM_PREMIUM)
             quality_mult == FLit(QualityMult(p))
             depreciation == FLit(calculate_depreciation_factor(p["year_built"], current))
         IN  FProd(FProd(raw_struct, quality_mult), depreciation)
    ELSE FLit(0)

FloatFeatures(p, land_value) ==
    LET f0 == FLit(0)
        f1 == IF Flag(p, "is_corner")
              THEN FSum(f0, FProd(land_value, FLit(CORNER_PCT))) ELSE f0
        f2 == IF Flag(p, "is_park")
              THEN FSum(f1, FProd(land_value, FLit(PARK_PCT))) ELSE f1
        f3 == IF Flag(p, "is_west_open")
              THEN FSum(f2, FProd(land_value, FLit(WEST_OPEN_PCT))) ELSE f2
    IN  f3

FloatTotal(p, current) ==
    LET land_value      == FloatLandValue(p)
        structure_value == FloatStructureValue(p, current)
        features        == FloatFeatures(p, land_value)
        total           == FSum(FSum(land_value, structure_value), features)
    IN  IF p["type"] = "Commercial"
        THEN FProd(total, FLit(COMMERCIAL_MULTIPLIER)) ELSE total

\* float(total * variance)
FloatFinal(p, current, variance) == FValue(FProd(FloatTotal(p, current), FLit(variance)))

\* total * variance, variance in hundredths: whole PKR (the floor) and
\* hundredths of the exact product, and, when the exact product ends in .50,
\* whether the double the code computes is below (-1), at (0) or above (1)
\* that value.
Final(p, current, total, variance) ==
    LET pkr   == Times(total, variance)
        cents == TimesCents(total, variance)
    IN  [pkr   |-> pkr,
         cents |-> cents,
         tie   |-> IF cents = 50
                   THEN FCompareHalf(FloatFinal(p, current, variance), pkr) ELSE 0]

VariancesTenPercent == {90, 100, 110}

\* The set np.random.uniform(0.97, 1.03) is sampled from, in hundredths.
Variances == {VARIANCE_LOW, 100, VARIANCE_HIGH}

calculate_estimate(p, current, variance) ==
    IF MissingKeys(p) # {}
    THEN [kind |-> "raise", exc |-> <<"KeyError", FirstMissing(p)>>]
    ELSE LET land_value      == LandValue(p)
             structure_value == StructureValue(p, current)
             features        == Features(p, land_value)
             total           == Total(p, land_value, structure_value, features)
         IN  [kind  |-> "return",
              value |-> [price |-> Final(p, current, total, variance),
                         breakdown |->
                            [base_rate |-> BaseRate(p),
                             land |-> land_value,
                             structure |-> structure_value,
                             features |-> features,
                             depreciation_factor |-> Depreciation(p, current),
                             pre_variance |-> total]]]

\* logger.exception("Calculation error") in the except clause.
LogOf(out) == IF out.kind = "raise" THEN <<"Calculation error">> ELSE <<>>

(***************************************************************************)
(* format_pk and create_pdf_bytes                                          *)
(***************************************************************************)
\* The double nearest-integer rounding of the "{:,.0f}" conversion: ties go
\* to the even neighbour, and a double beside the tie goes to its own side.
Round0(amount) ==
    IF amount.cents > 50 THEN amount.pkr + 1
    ELSE IF amount.cents < 50 THEN amount.pkr
    ELSE IF amount.tie > 0 THEN amount.pkr + 1
    ELSE IF amount.tie < 0 THEN amount.pkr
    ELSE IF amount.pkr % 2 = 0 THEN amount.pkr ELSE amount.pkr + 1

\* An amount of the breakdown: a whole number of PKR.
Whole(x) == [pkr |-> x, cents |-> 0, tie |-> 0]

\* f"PKR {amount:,.0f}": the prefix, the sign and the digits.  The sign is
\* that of the amount, also when the digits are 0.
PKRText(amount) ==
    <<"PKR", IF amount.pkr < 0 THEN "-" ELSE "", Abs(Round0(amount))>>

\* The third component of format_pk.
format_pk(amount) == PKRText(amount)

\* The keys of params the payload is built from.
PayloadKeys == {"location", "type", "area", "year_built", "road_width", "bedrooms", "quality"}

Payload(p, result) ==
    [location |-> p["location"], type |-> p["type"],
     fmt_price |-> format_pk(result.price),
     area |-> p["area"], year_built |-> p["year_built"],
     road_width |-> p["road_width"], bedrooms |-> p["bedrooms"],
     quality |-> p["quality"], breakdown |-> result.breakdown]

PdfAlwaysListsFeatures(payload, date) ==
    LET bd == payload.breakdown
    IN  <<  <<"PropData - Valuation Report">>,
            <<"Date", date>>,
            <<"Location", payload.location, payload.type>>,
            <<"Estimated Value", payload.fmt_price>>,
            <<"Plot Area", payload.area, "Road Category", payload.road_width>> >>
        \o (IF payload.type = "Residential"
              THEN << <<"Bedrooms", payload.bedrooms, "Quality", payload.quality>> >>
              ELSE <<>>)
        \o << <<"Financial Breakdown">>,
              <<"Land Value", PKRText(Whole(bd.land)) >> >>
        \o (IF payload.type = "Residential"
              THEN << <<"Structure Value", PKRText(Whole(bd.structure)) >> >>
              ELSE <<>>)
        \o << <<"Feature Premiums", PKRText(Whole(bd.features)) >>,
              <<"Disclaimer">>, <<"Page", 1>> >>

\* The cells of the page in the order they are written; header() runs inside
\* add_page() and footer() when the document is closed by output().
create_pdf_bytes(payload, date) ==
    LET bd == payload.breakdown
    IN  <<  <<"PropData - Valuation Report">>,
            <<"Date", date>>,
            <<"Location", payload.location, payload.type>>,
            <<"Estimated Value", payload.fmt_price>>,
            <<"Plot Area", payload.area, "Road Category", payload.road_width>> >>
        \o (IF payload.type = "Residential"
              THEN << <<"Bedrooms", payload.bedrooms, "Quality", payload.quality>> >>
              ELSE <<>>)
        \o << <<"Financial Breakdown">>,
              <<"Land Value", PKRText(Whole(bd.land)) >> >>
        \o (IF payload.type = "Residential"
              THEN << <<"Structure Value", PKRText(Whole(bd.structure)) >> >>
              ELSE <<>>)
        \o (IF bd.features > 0
              THEN << <<"Feature Premiums", PKRText(Whole(bd.features)) >> >>
              ELSE <<>>)
        \o << <<"Disclaimer">>, <<"Page", 1>> >>

(***************************************************************************)
(* ValuationEngine.generate_forecast, behind st.cache_data                 *)
(***************************************************************************)
LinspaceOpenEnded(start, stop, num) ==
    [i \in 1..num |-> start + (i - 1) * ((stop - start) \div num)]

\* np.linspace(start, stop, num) with endpoint=True.
Linspace(start, stop, num) ==
    LET div   == num - 1
        delta == stop - start
    IN  [i \in 1..num |->
            IF num > 1 /\ i = num THEN stop
            ELSE IF div > 0 THEN (i - 1) * (delta \div div) + start
            ELSE (i - 1) * delta + start]

\* The standard deviation start_price * 0.015 of the noise.
Sigma(start_price) == (start_price \div 1000) * NOISE_PER_MILLE

\* The values one draw of np.random.normal(0, sigma) is taken from.
NoiseSamples(start_price) == {0 - Sigma(start_price), Sigma(start_price)}

\* The last day of the month that is k months after month m of year y.
MonthEnd(y, m, k) ==
    LET t  == (m - 1) + k
        yy == y + (t \div 12)
        mm == (t % 12) + 1
    IN  <<yy, mm, DaysInMonth(yy, mm)>>

\* pd.date_range(start=date, periods=n, freq='ME'): the n month ends on or
\* after the start date.
DateRangeME(date, n) == [i \in 1..n |-> MonthEnd(date[1], date[2], i - 1)]

Growth(start_price, months) ==
    Linspace(start_price, Times(start_price, GROWTH_PCT), months)

generate_forecast(start_price, months, noise, date) ==
    LET growth == Growth(start_price, months)
        dates  == DateRangeME(date, months)
    IN  [i \in 1..months |-> [Date |-> dates[i], MarketValue |-> growth[i] + noise[i]]]

CacheKeyPriceOnly(start_price, months) == <<start_price>>

\* st.cache_data keys an entry by the values of the call's arguments.
CacheKey(start_price, months) == <<start_price, months>>

(***************************************************************************)
(* Inputs                                                                  *)
(***************************************************************************)
MinYear == 1950

\* The days the process is observed on: a month end in a leap year, and a
\* day in the middle of a December.
Todays == {<<2024, 1, 31>>, <<2025, 12, 15>>}

\* Two names of the rate table and one outside it; likewise for the road
\* widths and the quality tiers.
Locations == {"DHA Phase 8", "Taiser Town", "Atlantis"}
RoadWidths == {"Standard Street (30-40ft)", "Main Boulevard (100ft+)", "Dirt Track"}
\* The slider's minimum and its default.
Areas == {50, 240}
Types == {"Residential", "Commercial"}
BedroomCounts == {0, 3}
Qualities == {"B (Standard)", "A+ (Luxury)", "Unrated"}
\* year_built as current year - age: next year, this year, eight years ago.
Ages == {-1, 0, 8}
\* Prices whose 12% growth splits into whole steps for every month count
\* used here, so that the trend of np.linspace is exact in whole PKR.
StartPrices == {49560000, 72960000}

FullRequests(current) ==
    [location : Locations, road_width : RoadWidths, area : Areas, type : Types,
     bedrooms : BedroomCounts, quality : Qualities,
     year_built : {current - a : a \in Ages},
     is_corner : BOOLEAN, is_park : BOOLEAN, is_west_open : BOOLEAN]

Fields ==
    {"location", "road_width", "area", "type", "bedrooms", "quality", "year_built",
     "is_corner", "is_park", "is_west_open"}

Drop(r, f) == [k \in DOMAIN r \ {f} |-> r[k]]

\* Requests a caller left one field out of.
PartialRequests(current) ==
    {Drop(r, f) : r \in {q \in FullRequests(current) :
                            /\ q.location = "DHA Phase 8" /\ q.area = 240
                            /\ q.road_width = "Standard Street (30-40ft)"
                            /\ q.bedrooms = 3 /\ q.quality = "B (Standard)"
                            /\ q.year_built = current
                            /\ q.is_corner /\ ~q.is_park /\ ~q.is_west_open},
                 f \in Fields}

Requests(current) == FullRequests(current) \cup PartialRequests(current)

(***************************************************************************)
(* State machine                                                           *)
(***************************************************************************)
Init ==
    /\ today \in Todays
    /\ params = <<>>
    /\ outcome = NoCall
    /\ log = <<>>
    /\ report = <<>>
    /\ dep = NoCall
    /\ cache = <<>>
    /\ forecast = NoCall
    /\ computed = <<>>

\* A call of engine.calculate_estimate(params), once in a run of the script.
\* The outcome keeps the day of the call beside what the call produced.
CalculateEstimate ==
    /\ outcome = NoCall
    /\ \E p \in Requests(Year(today)), variance \in Variances :
        LET out == calculate_estimate(p, Year(today), variance)
        IN  /\ Len(log) + Len(LogOf(out)) <= MaxLog
            /\ params' = p
            /\ outcome' = out @@ [on |-> today]
            /\ log' = log \o LogOf(out)
            /\ report' = <<>>
    /\ UNCHANGED <<today, dep, cache, forecast, computed>>

\* The report of the estimate just computed: format_pk, the payload and
\* create_pdf_bytes, which reads the date itself.
CreatePdfBytes ==
    /\ outcome.kind = "return"
    /\ PayloadKeys \subseteq DOMAIN params
    /\ report' = create_pdf_bytes(Payload(params, outcome.value), today)
    /\ UNCHANGED <<today, params, outcome, log, dep, cache, forecast, computed>>

\* A call of engine.calculate_depreciation_factor(construction_year).
CalculateDepreciationFactor ==
    \E y \in MinYear..MaxYear :
        /\ dep' = [kind |-> "return", construction_year |-> y, current |-> Year(today),
                   factor |-> calculate_depreciation_factor(y, Year(today))]
        /\ UNCHANGED <<today, params, outcome, log, report, cache, forecast, computed>>

\* A call of generate_forecast(start_price, months): st.cache_data returns
\* the stored frame of an earlier call with the same arguments, and runs the
\* function and stores its frame otherwise.
GenerateForecast ==
    \E s \in StartPrices, n \in 0..MaxMonths :
        LET key == CacheKey(s, n)
        IN  \/ /\ key \in DOMAIN cache
               /\ forecast' = [kind |-> "return", start_price |-> s, months |-> n,
                               frame |-> cache[key], on |-> today, hit |-> TRUE]
               /\ UNCHANGED <<cache, computed>>
            \/ /\ key \notin DOMAIN cache
               /\ Cardinality(DOMAIN cache) < MaxCache
               /\ \E noise \in [1..n -> NoiseSamples(s)] :
                    LET frame == generate_forecast(s, n, noise, today)
                    IN  /\ cache' = (key :> frame) @@ cache
                        /\ computed' = (key :> [growth |-> Growth(s, n), noise |-> noise,
                                                on |-> today]) @@ computed
                        /\ forecast' = [kind |-> "return", start_price |-> s,
                                        months |-> n, frame |-> frame,
                                        on |-> today, hit |-> FALSE]
    /\ UNCHANGED <<today, params, outcome, log, report, dep>>

\* The process keeps running into a later day.
NewDay ==
    /\ \E d \in Todays : DateLess(today, d) /\ today' = d
    /\ UNCHANGED <<params, outcome, log, report, dep, cache, forecast, computed>>

\* The script is run again from the top: the locals of the last run are
\* gone, the logger's records stay.
Rerun ==
    /\ outcome # NoCall
    /\ params' = <<>>
    /\ outcome' = NoCall
    /\ report' = <<>>
    /\ UNCHANGED <<today, log, dep, cache, forecast, computed>>

Next == CalculateEstimate \/ CreatePdfBytes \/ Rerun \/ NewDay

Spec == Init /\ [][Next]_vars

NextDepreciation == CalculateDepreciationFactor \/ NewDay

SpecDepreciation == Init /\ [][NextDepreciation]_vars

NextForecast == GenerateForecast \/ NewDay

SpecForecast == Init /\ [][NextForecast]_vars

(***************************************************************************)
(* Properties                                                              *)
(***************************************************************************)
Returned == outcome.kind = "return"
Breakdown == outcome.value.breakdown

\* The documented tables, independent of the lookups above.
TableRate(loc) == IF loc \in DOMAIN BASE_RATES THEN BASE_RATES[loc] ELSE 50000
TableRoad(label) == IF label \in DOMAIN ROAD_WIDTH_FACTORS THEN ROAD_WIDTH_FACTORS[label] ELSE 100
TableQuality(tier) == IF tier \in DOMAIN QUALITY_MULTIPLIERS THEN QUALITY_MULTIPLIERS[tier] ELSE 100

\* The documented depreciation curve, by age.
StepFactor(age) ==
    CASE age = 0 -> 110
      [] age \in 1..5 -> 100
      [] age \in 6..10 -> 85
      [] age \in 11..20 -> 70
      [] OTHER -> 55

ClampedAge(current, year_built) == IF current > year_built THEN current - year_built ELSE 0

\* x * pct / 100 as whole PKR and hundredths.
PctOf(x, pct) ==
    [pkr   |-> (x \div 100) * pct + ((x % 100) * pct) \div 100,
     cents |-> ((x % 100) * pct) % 100]

AtMost(a, b) == a.pkr < b.pkr \/ (a.pkr = b.pkr /\ a.cents <= b.cents)

IsExampleRequest(type) ==
    /\ DOMAIN params = Fields
    /\ params.location = "DHA Phase 8" /\ params.area = 240
    /\ params.road_width = "Standard Street (30-40ft)"
    /\ params.type = type
    /\ params.bedrooms = 3 /\ params.quality = "B (Standard)"
    /\ params.year_built = Year(outcome.on)
    /\ ~params.is_corner /\ ~params.is_park /\ ~params.is_west_open

\* C1: every Residential request that returns has land = base rate x road
\* factor x area, structure = bedrooms x 1,200,000 x quality factor x
\* depreciation factor and pre_variance = land + structure + features; the
\* DHA Phase 8 example gives 45,600,000, 3,960,000 and 49,560,000.
C1_ResidentialBreakdown ==
    (Returned /\ params["type"] = "Residential") =>
        LET bd  == Breakdown
            dep_f == StepFactor(ClampedAge(Year(outcome.on), params["year_built"]))
        IN  /\ bd.land = ((TableRate(params["location"]) * TableRoad(params["road_width"]))
                            \div 100) * params["area"]
            /\ bd.structure * 100 =
                 (params["bedrooms"] * 12000) * TableQuality(params["quality"]) * dep_f
            /\ bd.pre_variance = bd.land + bd.structure + bd.features
            /\ IsExampleRequest("Residential") =>
                 /\ bd.land = 45600000
                 /\ bd.structure = 3960000
                 /\ bd.pre_variance = 49560000

C1_Witness ==
    /\ Returned
    /\ IsExampleRequest("Residential")
    /\ Breakdown.pre_variance = 49560000

\* C2: lookups never raise: a known location is priced with its table rate,
\* an unknown one with exactly 50,000, and an unknown road-width label or
\* quality tier with the neutral multiplier 1.0.
C2_LookupsTotal ==
    /\ outcome.kind = "raise" => outcome.exc[2] \notin DOMAIN params
    /\ Returned =>
        LET bd == Breakdown
        IN  /\ params["location"] \in DOMAIN BASE_RATES =>
                    bd.base_rate = BASE_RATES[params["location"]]
            /\ params["location"] \notin DOMAIN BASE_RATES => bd.base_rate = 50000
            /\ params["road_width"] \notin DOMAIN ROAD_WIDTH_FACTORS =>
                    bd.land = bd.base_rate * params["area"]
            /\ (params["type"] = "Residential"
                    /\ params["quality"] \notin DOMAIN QUALITY_MULTIPLIERS) =>
                    bd.structure * 100 =
                        params["bedrooms"] * 1200000 * bd.depreciation_factor

C2_Witness ==
    /\ Returned
    /\ params["location"] = "Atlantis"
    /\ params["road_width"] = "Dirt Track"
    /\ params["type"] = "Residential" /\ params["quality"] = "Unrated"
    /\ params["bedrooms"] = 3 /\ params["area"] = 240
    /\ Breakdown.base_rate = 50000
    /\ Breakdown.land = 12000000

\* C3: the depreciation factor is the step function of the clamped age
\* max(0, current year - year built): 0 -> 1.10, 1..5 -> 1.00, 6..10 -> 0.85,
\* 11..20 -> 0.70, 21 and more -> 0.55; a year later than the current one
\* gives 1.10.
C3_DepreciationSteps ==
    dep.kind = "return" =>
        /\ dep.factor = StepFactor(ClampedAge(dep.current, dep.construction_year))
        /\ dep.construction_year > dep.current => dep.factor = 110

C3_Witness ==
    /\ dep.kind = "return"
    /\ dep.construction_year > dep.current
    /\ dep.factor = 110

\* C4: a Commercial request has structure value 0 and a pre-jitter total of
\* 1.60 x (land + features); a Residential request has a pre-jitter total of
\* land + structure + features.
C4_CommercialUplift ==
    Returned =>
        LET bd == Breakdown
        IN  /\ params["type"] = "Commercial" =>
                /\ bd.structure = 0
                /\ bd.pre_variance * 5 = (bd.land + bd.features) * 8
            /\ params["type"] = "Residential" =>
                bd.pre_variance = bd.land + bd.structure + bd.features

C4_Witness ==
    /\ Returned
    /\ DOMAIN params = Fields
    /\ params.type = "Commercial"
    /\ params.bedrooms = 3 /\ params.quality = "A+ (Luxury)"
    /\ params.is_corner
    /\ Breakdown.land > 0
    /\ Breakdown.structure = 0

\* C5: the feature premiums add up: the features total is land x (the sum of
\* 15% for corner, 10% for park-facing and 5% for west-open over the enabled
\* flags), on land value only and before the commercial uplift; 0 with no
\* flag and 30% of land value with all three.
C5_FeaturesAdditive ==
    Returned =>
        LET bd == Breakdown
            c == "is_corner" \in DOMAIN params /\ params["is_corner"]
            k == "is_park" \in DOMAIN params /\ params["is_park"]
            w == "is_west_open" \in DOMAIN params /\ params["is_west_open"]
            pct == (IF c THEN 15 ELSE 0) + (IF k THEN 10 ELSE 0) + (IF w THEN 5 ELSE 0)
        IN  /\ bd.features * 20 = (bd.land \div 5) * pct
            /\ (~c /\ ~k /\ ~w) => bd.features = 0
            /\ (c /\ k /\ w) => bd.features * 10 = bd.land * 3

C5_Witness ==
    /\ Returned
    /\ DOMAIN params = Fields
    /\ params.is_corner /\ params.is_park /\ params.is_west_open
    /\ params.type = "Commercial"
    /\ params.area = 240 /\ params.location = "DHA Phase 8"
    /\ params.road_width = "Standard Street (30-40ft)"
    /\ Breakdown.features = 13680000

\* The ranges of the input form.
ValidRequest ==
    /\ DOMAIN params = Fields
    /\ params.location \in DOMAIN BASE_RATES
    /\ params.area \in 50..4000
    /\ params.type \in {"Residential", "Commercial"}
    /\ params.road_width \in DOMAIN ROAD_WIDTH_FACTORS
    /\ params.year_built \in 1950..2025
    /\ params.quality \in DOMAIN QUALITY_MULTIPLIERS
    /\ params.bedrooms \in (IF params.type = "Residential" THEN 1..12 ELSE 0..12)

\* C6: for a valid request the price is within [0.97 x T, 1.03 x T] of the
\* pre-jitter total T (after the uplift for Commercial); the Commercial
\* DHA Phase 8 example has T = 72,960,000 and a price in
\* [70,771,200, 75,148,800].
C6_PriceWithinThreePercent ==
    (Returned /\ ValidRequest) =>
        LET T == Breakdown.pre_variance
            price == outcome.value.price
        IN  /\ AtMost(PctOf(T, 97), price)
            /\ AtMost(price, PctOf(T, 103))
            /\ IsExampleRequest("Commercial") =>
                /\ T = 72960000
                /\ AtMost([pkr |-> 70771200, cents |-> 0], price)
                /\ AtMost(price, [pkr |-> 75148800, cents |-> 0])

C6_Witness ==
    /\ Returned
    /\ ValidRequest
    /\ IsExampleRequest("Commercial")
    /\ outcome.value.price.pkr = 75148800 /\ outcome.value.price.cents = 0

\* The fields a request must carry.
RequiredFields ==
    {"location", "road_width", "area", "type"} \cup
    (IF "type" \in DOMAIN params /\ params["type"] = "Residential"
        THEN {"bedrooms", "quality", "year_built"} ELSE {})

C7_Outcome ==
    outcome.kind # "none" =>
        IF RequiredFields \subseteq DOMAIN params
        THEN Returned
        ELSE /\ outcome.kind = "raise"
             /\ outcome.exc[1] = "KeyError"
             /\ outcome.exc[2] \in RequiredFields \ DOMAIN params
             /\ "value" \notin DOMAIN outcome

C7_Logged ==
    (outcome.kind = "none" /\ outcome'.kind = "raise") =>
        log' = Append(log, "Calculation error")

\* C7: a request lacking a required field (location, road_width, area, type;
\* bedrooms, quality, year_built for Residential) makes calculate_estimate
\* log the failure and raise the KeyError, with no result; every other
\* request, whatever its values, returns an estimate.
C7_MissingFieldRaises == []C7_Outcome /\ [][C7_Logged]_vars

C7_Witness ==
    /\ outcome.kind = "raise"
    /\ outcome.exc = <<"KeyError", "bedrooms">>
    /\ params["type"] = "Residential"
    /\ log = <<"Calculation error">>

(***************************************************************************)
(* Properties of the forecast                                              *)
(***************************************************************************)
ForecastKey == <<forecast.start_price, forecast.months>>

MonthIndex(date) == date[1] * 12 + date[2]

LastDayOfMonth(y, m) == <<y, m, DaysInMonth(y, m)>>

LastDayOfNextMonth(date) ==
    IF date[2] = 12 THEN LastDayOfMonth(date[1] + 1, 1)
    ELSE LastDayOfMonth(date[1], date[2] + 1)

\* start_price * 1.12
GrownPrice(start_price) == start_price + (start_price \div 25) * 3

\* C8 as claimed: monthCount points for every monthCount >= 1, the first
\* dated the day of the call, each later date one calendar month after the
\* previous one, and a trend from startPrice to a last point of
\* startPrice x 1.12.
C8_AsClaimed ==
    (forecast.kind = "return" /\ forecast.months >= 1) =>
        LET f == forecast.frame
            n == forecast.months
            g == computed[ForecastKey].growth
        IN  /\ Len(f) = n
            /\ f[1].Date = forecast.on
            /\ \A i \in 1..(n - 1) :
                    /\ MonthIndex(f[i + 1].Date) = MonthIndex(f[i].Date) + 1
                    /\ DateLess(f[i].Date, f[i + 1].Date)
            /\ g[1] = forecast.start_price
            /\ g[n] = GrownPrice(forecast.start_price)

\* C8 amended: monthCount points for every monthCount >= 1; the first is
\* dated the last day of the month the sequence was computed in, each later
\* date is the last day of the next calendar month (strictly increasing);
\* the values are the trend plus the noise, the trend starts at startPrice,
\* and its last point is startPrice x 1.12 when monthCount >= 2 (the one
\* point of monthCount = 1 is startPrice).
C8_ForecastShape ==
    (forecast.kind = "return" /\ forecast.months >= 1) =>
        LET f == forecast.frame
            n == forecast.months
            c == computed[ForecastKey]
            g == c.growth
        IN  /\ Len(f) = n
            /\ f[1].Date = LastDayOfMonth(c.on[1], c.on[2])
            /\ \A i \in 1..(n - 1) :
                    /\ f[i + 1].Date = LastDayOfNextMonth(f[i].Date)
                    /\ DateLess(f[i].Date, f[i + 1].Date)
            /\ \A i \in 1..n : f[i].MarketValue = g[i] + c.noise[i]
            /\ g[1] = forecast.start_price
            /\ n >= 2 => g[n] = GrownPrice(forecast.start_price)

C8_Witness ==
    /\ forecast.kind = "return"
    /\ forecast.months = 3
    /\ forecast.start_price = 49560000
    /\ forecast.on = <<2025, 12, 15>>
    /\ ~forecast.hit
    /\ forecast.frame[1].Date = <<2025, 12, 31>>
    /\ forecast.frame[2].Date = <<2026, 1, 31>>
    /\ forecast.frame[3].Date = <<2026, 2, 28>>
    /\ computed[ForecastKey].growth = <<49560000, 52533600, 55507200>>

C9_Step ==
    /\ \A k \in DOMAIN cache : k \in DOMAIN cache' /\ cache'[k] = cache[k]
    /\ forecast'.kind = "return" =>
        LET k == <<forecast'.start_price, forecast'.months>>
        IN  /\ k \in DOMAIN cache'
            /\ forecast'.frame = cache'[k]
            /\ k \in DOMAIN cache => forecast'.frame = cache[k]
            /\ k \notin DOMAIN cache => DOMAIN cache' = DOMAIN cache \cup {k}

\* C9: the forecast is cached by (startPrice, monthCount): a stored sequence
\* never changes, a call with inputs seen before returns the sequence of the
\* first call with those inputs, and a call with new inputs stores a sequence
\* of its own and leaves the others alone.
C9_ForecastCached == [][C9_Step]_vars

C9_Witness ==
    /\ forecast.kind = "return"
    /\ forecast.hit
    /\ forecast.months = 2
    /\ Cardinality(DOMAIN cache) = 2
    /\ forecast.frame = cache[ForecastKey]
    /\ computed[ForecastKey].on # forecast.on

(***************************************************************************)
(* Properties of the report                                                *)
(***************************************************************************)
ReportTags == [i \in 1..Len(report) |-> report[i][1]]

ExpectedTags(withFeatures) ==
    <<"PropData - Valuation Report", "Date", "Location", "Estimated Value", "Plot Area">>
    \o (IF params["type"] = "Residential" THEN <<"Bedrooms">> ELSE <<>>)
    \o <<"Financial Breakdown", "Land Value">>
    \o (IF params["type"] = "Residential" THEN <<"Structure Value">> ELSE <<>>)
    \o (IF withFeatures THEN <<"Feature Premiums">> ELSE <<>>)
    \o <<"Disclaimer", "Page">>

\* The digits n of a text "PKR n", with their sign.
Shown(text) == IF text[2] = "-" THEN 0 - text[3] ELSE text[3]

ReportContents ==
    /\ report[2][1] = "Date"
    /\ ~DateLess(report[2][2], outcome.on) /\ ~DateLess(today, report[2][2])
    /\ report[3] = <<"Location", params["location"], params["type"]>>
    /\ Shown(report[4][2]) \in {outcome.value.price.pkr, outcome.value.price.pkr + 1}
    /\ report[5] = <<"Plot Area", params["area"], "Road Category", params["road_width"]>>
    /\ \A i \in 1..Len(report) :
        /\ report[i][1] = "Bedrooms" =>
                report[i] = <<"Bedrooms", params["bedrooms"], "Quality", params["quality"]>>
        /\ report[i][1] = "Land Value" => Shown(report[i][2]) = Breakdown.land
        /\ report[i][1] = "Structure Value" => Shown(report[i][2]) = Breakdown.structure
        /\ report[i][1] = "Feature Premiums" => Shown(report[i][2]) = Breakdown.features

\* C10: the report holds date, location and type, headline price, plot
\* specs, structure specs (Residential only), financial breakdown and
\* disclaimer in this order; the breakdown lists land value always,
\* structure value iff Residential, and feature premiums iff the features
\* total is nonzero.
C10_ReportLayout ==
    report # <<>> =>
        /\ ReportTags = ExpectedTags(Breakdown.features # 0)
        /\ ReportContents

C10_Witness ==
    /\ report # <<>>
    /\ params["type"] = "Residential"
    /\ Breakdown.features > 0
    /\ Len(report) = 12
    /\ report[10][1] = "Feature Premiums"

====
